---- MODULE Spec2Model ----
(***************************************************************************)
(* Model of src/seattle_sidewalk_analysis.py: the load / clean / aggregate *)
(* / rank / report script, one action per block of statements.             *)
(*                                                                         *)
(* Representation.                                                         *)
(*  - A nullable cell (pandas NaN) is a set: NaN == {} and {v} for the     *)
(*    value v.                                                             *)
(*  - The csv file holds severities as written (1..5).  The severity       *)
(*    column of the data frame is float64; the model keeps it in half      *)
(*    points (2 stands for 1.0, 5 for 2.5) so that the median of an even   *)
(*    number of values is exact.                                           *)
(*  - A group's mean is the exact quotient <<num, den>> until line 57      *)
(*    rounds it; avg_severity is then in hundredths, and                   *)
(*    barrier_density_index in tenths.  numpy's round is round-half-to-    *)
(*    even on value * 10^k; every tie that can occur on the mean is an odd *)
(*    multiple of 1/200, a binary fraction, and the product total * mean   *)
(*    is within an ulp of a multiple of 0.5, so exact arithmetic gives the *)
(*    values the float computation gives.                                  *)
(***************************************************************************)
EXTENDS Integers, Sequences, FiniteSets, TLC

VARIABLES
    pc,           \* the block of the script that runs next
    columns,      \* the column names of df
    raw,          \* the rows of the csv file, as loaded (never changed)
    df,           \* the module-level data frame
    missing_sev,  \* line 29
    stats,        \* the per-neighborhood table
    top10,        \* line 67
    files,        \* the files written so far
    console,      \* what has been printed: <<[msg, n]>>
    err           \* the exception that ended the run, or "none"

vars == <<pc, columns, raw, df, missing_sev, stats, top10, files, console, err>>

NaN == {}

Val(x) == CHOOSE v \in x : TRUE

isna(x) == x = NaN

Min(a, b) == IF a < b THEN a ELSE b

\* ---------------------------------------------------------------- bounds

\* Rows of a dataset drawn freely from RowDomain.
MaxRows == 2

\* Rows of a dataset drawn freely from SeverityRows.
MaxSevRows == 5

\* Copies of one row in a dataset made of two runs of equal rows.
MaxRun == 13

\* ------------------------------------------------------------ the input

SourceColumns ==
    { "geometry/coordinates/0", "geometry/coordinates/1", "properties/label_type",
      "properties/neighborhood", "properties/severity", "properties/is_temporary" }

\* Neighborhood names, in the ascending order groupby(sort=True) yields.
NeighborhoodOrder == <<"A", "B", "C", "D", "E", "F", "G", "H", "I", "J", "K">>

Neighborhoods == { NeighborhoodOrder[i] : i \in 1..Len(NeighborhoodOrder) }

Severities == 1..5

Row(lon, lat, nbh, sev) ==
    [longitude |-> lon, latitude |-> lat, neighborhood |-> nbh, severity |-> sev]

Here == Row({-122}, {47}, {"A"}, {3})

\* Every combination of null, zero and non-zero coordinates, with and
\* without a severity.
CoordRows ==
    { Row(lon, lat, {"A"}, sev) :
        lon \in {NaN, {0}, {-122}}, lat \in {NaN, {0}, {47}}, sev \in {NaN, {4}} }

\* Located and origin rows over the neighborhoods, null included.
GroupRows ==
    { Row(c[1], c[2], nbh, sev) :
        c \in {<<{-122}, {47}>>, <<{0}, {0}>>},
        nbh \in {NaN, {"A"}, {"B"}},
        sev \in {NaN, {1}, {5}} }

\* Rows of the longer datasets: the severities of one neighborhood, an
\* origin row that filtering drops, and a row of a second neighborhood.
SeverityRows ==
    { Row({-122}, {47}, {"A"}, sev) : sev \in {NaN, {1}, {3}, {5}} }
        \cup { Row({0}, {0}, {"A"}, {5}), Row({-122}, {47}, {"B"}, {2}) }

RowDomain == CoordRows \cup GroupRows

RECURSIVE SeqsUpTo(_, _)
SeqsUpTo(S, n) ==
    IF n = 0 THEN {<<>>}
    ELSE LET shorter == SeqsUpTo(S, n - 1)
         IN  shorter \cup { Append(s, x) : s \in { t \in shorter : Len(t) = n - 1 }, x \in S }

Rep(r, n) == [i \in 1..n |-> r]

\* Rows of the runs: one neighborhood with low severities, a second
\* neighborhood, a null severity, and an origin row that filtering drops.
RunRows ==
    { Row({-122}, {47}, {"A"}, {1}), Row({-122}, {47}, {"A"}, {2}),
      Row({-122}, {47}, {"A"}, NaN), Row({-122}, {47}, {"B"}, {5}),
      Row({0}, {0}, {"A"}, {5}) }

RunDatasets ==
    { Rep(r1, c1) \o Rep(r2, c2) : r1 \in RunRows, r2 \in RunRows,
                                   c1 \in 0..MaxRun, c2 \in 0..MaxRun }

\* The worked examples of the specification, section 8.
ImputationExample ==
    << Row({-122}, {47}, {"A"}, {1}), Row({-122}, {47}, {"A"}, {3}),
       Row({-122}, {47}, {"A"}, NaN), Row({0}, {0}, {"A"}, {5}),
       Row({-122}, {47}, {"A"}, NaN) >>

AggregationExample ==
    << Row({-122}, {47}, {"A"}, {4}), Row({-122}, {47}, {"A"}, {2}),
       Row({-122}, {47}, {"B"}, {5}) >>

FilteringExample ==
    << Row({0}, {0}, {"A"}, {2}), Row({0}, {47}, {"A"}, {2}) >>

ThreeNeighborhoods ==
    << Row({-122}, {47}, {"C"}, {2}), Row({-122}, {47}, {"A"}, {2}),
       Row({-122}, {47}, {"B"}, {5}), Row({-122}, {47}, {"C"}, NaN) >>

\* Located rows of one neighborhood whose severities add up to total.
RECURSIVE RowsAddingTo(_, _)
RowsAddingTo(nbh, total) ==
    IF total = 0 THEN <<>>
    ELSE LET s == Min(total, 5)
         IN  <<Row({-122}, {47}, {nbh}, {s})>> \o RowsAddingTo(nbh, total - s)

\* The first n neighborhoods, the k-th with severities adding up to k.
RECURSIVE Crowd(_)
Crowd(n) ==
    IF n = 0 THEN <<>> ELSE Crowd(n - 1) \o RowsAddingTo(NeighborhoodOrder[n], n)

\* More neighborhoods than the top 10 holds, all indices distinct.
ManyNeighborhoods == Crowd(Len(NeighborhoodOrder))

Examples ==
    {ImputationExample, AggregationExample, FilteringExample, ThreeNeighborhoods,
     ManyNeighborhoods}

Datasets ==
    SeqsUpTo(RowDomain, MaxRows) \cup SeqsUpTo(SeverityRows, MaxSevRows)
        \cup RunDatasets \cup Examples

\* pd.read_csv: the rows with their index labels; severity becomes float64.
read_csv(rows) ==
    [i \in 1..Len(rows) |->
        [index |-> i - 1,
         longitude |-> rows[i].longitude,
         latitude |-> rows[i].latitude,
         neighborhood |-> rows[i].neighborhood,
         severity |-> { 2 * s : s \in rows[i].severity }]]

\* --------------------------------------------------------------- helpers

Fail(e) ==
    /\ pc' = "failed"
    /\ err' = e

print(msg, n) == console' = Append(console, [msg |-> msg, n |-> n])

\* The mapping of df.rename(columns=...); a name it does not list is kept.
NewName(c) ==
    CASE c = "geometry/coordinates/0" -> "longitude"
      [] c = "geometry/coordinates/1" -> "latitude"
      [] c = "properties/label_type" -> "label_type"
      [] c = "properties/neighborhood" -> "neighborhood"
      [] c = "properties/severity" -> "severity"
      [] c = "properties/is_temporary" -> "is_temporary"
      [] OTHER -> c

\* The non-null values of a column, in row order.
RECURSIVE dropna(_)
dropna(col) ==
    IF col = <<>> THEN <<>>
    ELSE IF isna(Head(col)) THEN dropna(Tail(col))
    ELSE <<Val(Head(col))>> \o dropna(Tail(col))

column(frame, name) == [i \in 1..Len(frame) |-> frame[i][name]]

RECURSIVE Insert(_, _)
Insert(sorted, v) ==
    IF sorted = <<>> THEN <<v>>
    ELSE IF v <= Head(sorted) THEN <<v>> \o sorted
    ELSE <<Head(sorted)>> \o Insert(Tail(sorted), v)

RECURSIVE Sorted(_)
Sorted(s) == IF s = <<>> THEN <<>> ELSE Insert(Sorted(Tail(s)), Head(s))

RECURSIVE Sum(_)
Sum(s) == IF s = <<>> THEN 0 ELSE Head(s) + Sum(Tail(s))

\* Series.median(): skips nulls; NaN when nothing is left; the middle value,
\* or the mean of the two middle values (in half points: of two even numbers).
median(col) ==
    LET v == Sorted(dropna(col))
        n == Len(v)
    IN  IF n = 0 THEN NaN
        ELSE IF n % 2 = 1 THEN {v[(n + 1) \div 2]}
        ELSE {(v[n \div 2] + v[n \div 2 + 1]) \div 2}

fillna(x, value) == IF isna(x) THEN value ELSE x

\* ------------------------------------------------------------------ Init

Init ==
    /\ pc = "rename"
    /\ \/ /\ columns = SourceColumns
          /\ raw \in Datasets
       \/ /\ columns \in SUBSET SourceColumns
          /\ raw \in Examples \cup {<<>>, <<Here>>}
    /\ df = read_csv(raw)
    /\ missing_sev = 0
    /\ stats = <<>>
    /\ top10 = <<>>
    /\ files = {}
    /\ console = <<[msg |-> "Loaded", n |-> Len(raw)]>>
    /\ err = "none"

\* --------------------------------------------------------------- actions

\* Lines 17-25.  rename ignores a name that is not a column.
Rename ==
    /\ pc = "rename"
    /\ columns' = { NewName(c) : c \in columns }
    /\ pc' = "impute"
    /\ UNCHANGED <<raw, df, missing_sev, stats, top10, files, console, err>>

\* bad_coords with "or" between the two comparisons with 0.
bad_coords_either(row) ==
    \/ (row.longitude = {0} \/ row.latitude = {0})
    \/ isna(row.longitude)
    \/ isna(row.latitude)

\* Line 34-36: the mask of the rows to remove.  A null never equals 0.
bad_coords(row) ==
    \/ (row.longitude = {0} /\ row.latitude = {0})
    \/ isna(row.longitude)
    \/ isna(row.latitude)

Keep(row) == ~bad_coords(row)

\* Impute with the median taken over the located rows only, as it would be
\* were the fill to follow the coordinate filter.
ImputeLocated ==
    /\ pc = "impute"
    /\ \/ /\ "severity" \notin columns
          /\ Fail("KeyError")
          /\ UNCHANGED <<columns, raw, df, missing_sev, stats, top10, files, console>>
       \/ /\ "severity" \in columns
          /\ missing_sev' = Cardinality({ i \in 1..Len(df) : isna(df[i].severity) })
          /\ LET m == median(column(SelectSeq(df, Keep), "severity"))
             IN  df' = [i \in 1..Len(df) |->
                          [df[i] EXCEPT !.severity = fillna(df[i].severity, m)]]
          /\ print("Imputed", missing_sev')
          /\ pc' = "filter"
          /\ UNCHANGED <<columns, raw, stats, top10, files, err>>

\* Lines 27-31.
Impute ==
    /\ pc = "impute"
    /\ \/ /\ "severity" \notin columns
          /\ Fail("KeyError")
          /\ UNCHANGED <<columns, raw, df, missing_sev, stats, top10, files, console>>
       \/ /\ "severity" \in columns
          /\ missing_sev' = Cardinality({ i \in 1..Len(df) : isna(df[i].severity) })
          /\ LET m == median(column(df, "severity"))
             IN  df' = [i \in 1..Len(df) |->
                          [df[i] EXCEPT !.severity = fillna(df[i].severity, m)]]
          /\ print("Imputed", missing_sev')
          /\ pc' = "filter"
          /\ UNCHANGED <<columns, raw, stats, top10, files, err>>

\* Lines 33-38.  The rows kept carry their index labels along.
FilterCoords ==
    /\ pc = "filter"
    /\ \/ /\ ~({"longitude", "latitude"} \subseteq columns)
          /\ Fail("KeyError")
          /\ UNCHANGED <<columns, raw, df, missing_sev, stats, top10, files, console>>
       \/ /\ {"longitude", "latitude"} \subseteq columns
          /\ df' = SelectSeq(df, Keep)
          /\ print("Clean", Len(df'))
          /\ pc' = "aggregate"
          /\ UNCHANGED <<columns, raw, missing_sev, stats, top10, files, err>>

\* groupby("neighborhood"): dropna=True leaves the rows with a null key out
\* of every group; sort=True yields the keys in ascending order.
GroupKeys(frame) ==
    SelectSeq(NeighborhoodOrder,
              LAMBDA k : \E i \in 1..Len(frame) : frame[i].neighborhood = {k})

Group(frame, k) == SelectSeq(frame, LAMBDA row : row.neighborhood = {k})

\* ("severity", "count"): the non-null values of the group.
count(col) == Len(dropna(col))

\* ("severity", "mean"): the mean of the non-null values, NaN without any.
\* In half points the sum is Sum/2, so the mean is Sum / (2 * count).
mean(col) ==
    LET v == dropna(col)
    IN  IF Len(v) = 0 THEN NaN ELSE {<<Sum(v), 2 * Len(v)>>}

agg(frame) ==
    LET keys == GroupKeys(frame)
    IN  [j \in 1..Len(keys) |->
            LET sev == column(Group(frame, keys[j]), "severity")
            IN  [neighborhood |-> keys[j],
                 total_barriers |-> count(sev),
                 avg_severity |-> mean(sev),
                 barrier_density_index |-> NaN]]

\* Lines 45-52.
Aggregate ==
    /\ pc = "aggregate"
    /\ \/ /\ "neighborhood" \notin columns
          /\ Fail("KeyError")
          /\ UNCHANGED <<columns, raw, df, missing_sev, stats, top10, files, console>>
       \/ /\ "neighborhood" \in columns
          /\ stats' = agg(df)
          /\ pc' = "index"
          /\ UNCHANGED <<columns, raw, df, missing_sev, top10, files, console, err>>

\* n / d rounded to an integer, ties to the even one (n >= 0, d > 0).
RoundHalfEven(n, d) ==
    LET q == n \div d
        r == n % d
    IN  IF 2 * r < d THEN q
        ELSE IF 2 * r > d THEN q + 1
        ELSE IF q % 2 = 0 THEN q ELSE q + 1

Pow10(k) == IF k = 0 THEN 1 ELSE IF k = 1 THEN 10 ELSE 100

\* Series.round(k) of a quotient: the value in units of 10^-k.
round(x, k) == IF isna(x) THEN NaN ELSE {RoundHalfEven(Pow10(k) * Val(x)[1], Val(x)[2])}

\* total_barriers * avg_severity, a null mean giving a null product.
times(total, x) == IF isna(x) THEN NaN ELSE {<<total * Val(x)[1], Val(x)[2]>>}

\* WithIndex with the two roundings first: the index taken from the mean as
\* stored (hundredths), total * avg / 100 in tenths.
WithIndexRounded(row) ==
    LET avg == round(row.avg_severity, 2)
    IN  [row EXCEPT !.avg_severity = avg,
                    !.barrier_density_index =
                        IF isna(avg) THEN NaN
                        ELSE {RoundHalfEven(row.total_barriers * Val(avg), 10)}]

\* Lines 54-58 on one row: the index is taken from the mean as aggregated,
\* and then both are rounded.
WithIndex(row) ==
    LET product == times(row.total_barriers, row.avg_severity)
    IN  [row EXCEPT !.avg_severity = round(row.avg_severity, 2),
                    !.barrier_density_index = round(product, 1)]

\* Lines 54-58.
RiskIndex ==
    /\ pc = "index"
    /\ stats' = [j \in 1..Len(stats) |-> WithIndex(stats[j])]
    /\ pc' = "rank"
    /\ UNCHANGED <<columns, raw, df, missing_sev, top10, files, console, err>>

\* a goes before b, or ties with it, in a descending sort with the nulls last.
NotAfter(a, b) ==
    \/ isna(b)
    \/ ~isna(a) /\ Val(a) >= Val(b)

\* sort_values("barrier_density_index", ascending=False): the default kind is
\* quicksort, which promises no order among equal keys, so every descending
\* arrangement of the rows is a possible result.
RECURSIVE Arrangements(_, _)
Arrangements(table, js) ==
    IF js = {} THEN {<<>>}
    ELSE UNION { { <<table[j]>> \o rest : rest \in Arrangements(table, js \ {j}) } :
                 j \in { a \in js : \A b \in js :
                            NotAfter(table[a].barrier_density_index,
                                     table[b].barrier_density_index) } }

sort_values(table) == Arrangements(table, 1..Len(table))

Top10Size == 10

head(table, n) == SubSeq(table, 1, Min(n, Len(table)))

\* Lines 60-77.
Rank ==
    /\ pc = "rank"
    /\ stats' \in sort_values(stats)
    /\ top10' = head(stats', Top10Size)
    /\ pc' = "bar"
    /\ UNCHANGED <<columns, raw, df, missing_sev, files, console, err>>

\* Lines 81-109.
BarChart ==
    /\ pc = "bar"
    /\ files' = files \cup {"chart_top10_barriers.html"}
    /\ pc' = "map"
    /\ UNCHANGED <<columns, raw, df, missing_sev, stats, top10, console, err>>

SevereSeverity == 5

SevereCap == 900

\* Line 132.  The severity column is in half points.
severe_df(frame) ==
    head(SelectSeq(frame, LAMBDA row : ~isna(row.severity)
                                        /\ Val(row.severity) >= 2 * SevereSeverity),
         SevereCap)

\* Lines 112-163.  The mean of an empty column is NaN, and folium.Map refuses
\* a NaN location; a marker's popup reads the row's label_type.
HotspotMap ==
    /\ pc = "map"
    /\ \/ /\ Len(df) = 0
          /\ Fail("ValueError")
          /\ UNCHANGED <<columns, raw, df, missing_sev, stats, top10, files, console>>
       \/ /\ Len(df) > 0
          /\ Len(severe_df(df)) > 0
          /\ "label_type" \notin columns
          /\ Fail("KeyError")
          /\ UNCHANGED <<columns, raw, df, missing_sev, stats, top10, files, console>>
       \/ /\ Len(df) > 0
          /\ Len(severe_df(df)) = 0 \/ "label_type" \in columns
          /\ files' = files \cup {"seattle_accessibility_hotspots.html"}
          /\ pc' = "pie"
          /\ UNCHANGED <<columns, raw, df, missing_sev, stats, top10, console, err>>

\* Lines 166-182.
PieChart ==
    /\ pc = "pie"
    /\ \/ /\ "label_type" \notin columns
          /\ Fail("KeyError")
          /\ UNCHANGED <<columns, raw, df, missing_sev, stats, top10, files, console>>
       \/ /\ "label_type" \in columns
          /\ files' = files \cup {"chart_barrier_types.html"}
          /\ pc' = "summary"
          /\ UNCHANGED <<columns, raw, df, missing_sev, stats, top10, console, err>>

\* Lines 184-193.
Summary ==
    /\ pc = "summary"
    /\ \/ /\ "is_temporary" \notin columns
          /\ Fail("KeyError")
          /\ UNCHANGED <<columns, raw, df, missing_sev, stats, top10, files, console>>
       \/ /\ "is_temporary" \in columns
          /\ pc' = "insight"
          /\ UNCHANGED <<columns, raw, df, missing_sev, stats, top10, files, console, err>>

\* Lines 195-199.  top10.iloc[0] and top10.iloc[1] need two rows.
Insight ==
    /\ pc = "insight"
    /\ \/ /\ Len(top10) < 2
          /\ Fail("IndexError")
          /\ UNCHANGED <<columns, raw, df, missing_sev, stats, top10, files, console>>
       \/ /\ Len(top10) >= 2
          /\ pc' = "export"
          /\ UNCHANGED <<columns, raw, df, missing_sev, stats, top10, files, console, err>>

\* Lines 201-203.
Export ==
    /\ pc = "export"
    /\ files' = files \cup {"neighborhood_barrier_stats.csv"}
    /\ pc' = "done"
    /\ UNCHANGED <<columns, raw, df, missing_sev, stats, top10, console, err>>

Next ==
    \/ Rename
    \/ Impute
    \/ FilterCoords
    \/ Aggregate
    \/ RiskIndex
    \/ Rank
    \/ BarChart
    \/ HotspotMap
    \/ PieChart
    \/ Summary
    \/ Insight
    \/ Export

Spec == Init /\ [][Next]_vars

\* ---------------------------------------------------------------- claims

Printed(msg) == \E k \in 1..Len(console) : console[k].msg = msg

Imputed == Printed("Imputed")

Cleaned == Printed("Clean")

\* The bar chart is written right after ranking and cannot fail.
Ranked == pc = "bar" \/ "chart_top10_barriers.html" \in files

Aggregated == pc \in {"index", "rank"} \/ Ranked

AllColumns == { NewName(c) : c \in columns } = { NewName(c) : c \in SourceColumns }

RawRow(row) == raw[row.index + 1]

Located(r) ==
    /\ r.longitude # NaN
    /\ r.latitude # NaN
    /\ ~(r.longitude = {0} /\ r.latitude = {0})

\* The severities (half points) of the cleaned rows of neighborhood k.
GroupSeverities(k) ==
    dropna(column(SelectSeq(df, LAMBDA row : row.neighborhood = {k}), "severity"))

\* C1: in a ranked report the total_barriers of all neighborhoods add up to
\* the number of cleaned records, whatever neighborhoods and severities are
\* null.
C1_TotalsAddUpToCleaned ==
    Ranked => Sum(column(stats, "total_barriers")) = Len(df)

\* total * avg / 100, in tenths, from the average as stored in the report.
FromStoredAverage(row) ==
    IF isna(row.avg_severity) THEN NaN
    ELSE {RoundHalfEven(row.total_barriers * Val(row.avg_severity), 10)}

\* C2 as stated: every row's barrier_density_index is
\* round(total_barriers * avg_severity, 1) with avg_severity the average
\* already rounded to 2 decimals, the value the report stores.
C2_IndexFromRoundedAverage ==
    Ranked => \A j \in 1..Len(stats) :
                 stats[j].barrier_density_index = FromStoredAverage(stats[j])

\* C2 amended: every row's barrier_density_index is total_barriers times the
\* mean as aggregated, rounded to 1 decimal, which is the sum of the group's
\* severities (half points * 5 = tenths); a group without a severity has a
\* null index.
C2_IndexFromUnroundedMean ==
    Ranked => \A j \in 1..Len(stats) :
                 LET sev == GroupSeverities(stats[j].neighborhood)
                 IN  stats[j].barrier_density_index =
                        IF Len(sev) = 0 THEN NaN ELSE {5 * Sum(sev)}

\* A ranked row whose index is not the one the stored average gives.
C2_Witness ==
    /\ Ranked
    /\ \E j \in 1..Len(stats) :
          /\ ~isna(stats[j].avg_severity)
          /\ stats[j].barrier_density_index # FromStoredAverage(stats[j])

\* C3: with every column present and at least one neighborhood in the cleaned
\* data, the run raises nothing and top10 is the first min(10, n) rows of the
\* ranked table.
C3_ShortInputCompletes ==
    (AllColumns /\ Cleaned /\ Len(GroupKeys(df)) >= 1) =>
        /\ err = "none"
        /\ Ranked => top10 = head(stats, Top10Size)

\* C4: when filtering leaves no row, the run fails with EmptyDatasetError at
\* the end of cleaning: nothing is aggregated, ranked or written.
C4_EmptyStopsAfterCleaning ==
    (AllColumns /\ Cleaned /\ Len(df) = 0) =>
        /\ pc = "failed"
        /\ err = "EmptyDatasetError"
        /\ stats = <<>>
        /\ files = {}

\* C5: after cleaning, every row has a severity in [1, 5] (2..10 half points)
\* and coordinates that are neither null nor both zero.
C5_CleanedRowsValid ==
    Cleaned => \A k \in 1..Len(df) :
                  /\ ~isna(df[k].severity)
                  /\ Val(df[k].severity) \in 2..10
                  /\ Located(df[k])

\* C6: with a required column absent, the run fails with SchemaError at
\* normalization: no later block runs, prints or writes.
C6_MissingColumnFailsAtRename ==
    ~AllColumns =>
        \/ pc = "rename"
        \/ /\ pc = "failed"
           /\ err = "SchemaError"
           /\ ~Imputed
           /\ files = {}

\* a >= b as floats compare: false when either is null.
Geq(a, b) == ~isna(a) /\ ~isna(b) /\ Val(a) >= Val(b)

\* C7: the ranked table is in descending order of barrier_density_index,
\* pair by pair, with exactly one row per neighborhood of the cleaned data.
C7_RankedDescendingOnePerNeighborhood ==
    Ranked =>
        /\ \A j \in 1..(Len(stats) - 1) :
              Geq(stats[j].barrier_density_index, stats[j + 1].barrier_density_index)
        /\ \A k \in Neighborhoods :
              Cardinality({ j \in 1..Len(stats) : stats[j].neighborhood = k })
                 = IF \E i \in 1..Len(df) : df[i].neighborhood = {k} THEN 1 ELSE 0

NullKeyRows == { i \in 1..Len(df) : isna(df[i].neighborhood) }

\* C8: once a located row with a null neighborhood has gone through
\* aggregation, either MissingGroupKeyError was raised or the number of rows
\* dropped for it was reported.
C8_NullNeighborhoodNotSilent ==
    (Aggregated /\ NullKeyRows # {}) =>
        \/ err = "MissingGroupKeyError"
        \/ \E k \in 1..Len(console) :
              /\ console[k].msg = "Dropped"
              /\ console[k].n = Cardinality(NullKeyRows)

\* The k-th smallest of the non-null severities of the csv file.
Smallest(k) ==
    CHOOSE v \in Severities :
        /\ Cardinality({ i \in 1..Len(raw) : raw[i].severity # NaN
                                             /\ Val(raw[i].severity) <= v }) >= k
        /\ Cardinality({ i \in 1..Len(raw) : raw[i].severity # NaN
                                             /\ Val(raw[i].severity) < v }) < k

\* The median of the non-null severities of the whole csv file, half points.
GlobalMedian ==
    LET n == Cardinality({ i \in 1..Len(raw) : raw[i].severity # NaN })
    IN  IF n = 0 THEN NaN
        ELSE IF n % 2 = 1 THEN {2 * Smallest((n + 1) \div 2)}
        ELSE {Smallest(n \div 2) + Smallest(n \div 2 + 1)}

\* C9: from imputation on, a row whose severity was null in the file holds
\* the median of all the file's non-null severities, rows that filtering
\* drops included, and any other row holds the severity of the file; the
\* fill precedes the filter (all rows are still there when it is done).
C9_GlobalMedianFill ==
    Imputed =>
        /\ \A k \in 1..Len(df) :
              df[k].severity = IF RawRow(df[k]).severity = NaN THEN GlobalMedian
                               ELSE {2 * Val(RawRow(df[k]).severity)}
        /\ pc = "filter" => Len(df) = Len(raw)
        /\ missing_sev = Cardinality({ i \in 1..Len(raw) : raw[i].severity = NaN })

\* The example of the specification, [1, 3, null, 5, null] (the 5 on a row
\* at the origin), filled to [1, 3, 3, 5, 3] and then filtered.
C9_Witness ==
    /\ raw = ImputationExample
    /\ pc = "aggregate"
    /\ column(df, "severity") = <<{2}, {6}, {6}, {6}>>

\* C10: the cleaned rows are exactly the rows of the file whose longitude and
\* latitude are both non-null and not both 0, in file order, whatever their
\* severity.
C10_KeptIffLocated ==
    Cleaned =>
        /\ { df[k].index + 1 : k \in 1..Len(df) } = { i \in 1..Len(raw) : Located(raw[i]) }
        /\ \A k \in 1..Len(df) :
              /\ df[k].longitude = RawRow(df[k]).longitude
              /\ df[k].latitude = RawRow(df[k]).latitude
              /\ df[k].neighborhood = RawRow(df[k]).neighborhood
        /\ \A k \in 1..(Len(df) - 1) : df[k].index < df[k + 1].index

\* An origin row dropped beside a kept row with longitude 0 and a null
\* severity in the file.
C10_Witness ==
    /\ Cleaned
    /\ \E i \in 1..Len(raw) : raw[i].longitude = {0} /\ raw[i].latitude = {0}
    /\ \E k \in 1..Len(df) :
          /\ df[k].longitude = {0}
          /\ df[k].latitude = {47}
          /\ RawRow(df[k]).severity = NaN

====
